---- MODULE Spec2Model ----
(***************************************************************************)
(* A model of src/app.py: the Streamlit script that searches OpenAlex for  *)
(* institutions, lets the user pick one candidate and plots its RCA rows.  *)
(*                                                                         *)
(* Text is modelled as a sequence of one-character strings, so that        *)
(* str.strip, str.rsplit and the f-string label are computed and not       *)
(* assumed.  Numbers are integers in tenths (9 stands for 0.9).            *)
(***************************************************************************)
EXTENDS Integers, Sequences, FiniteSets, TLC

(***************************************************************************)
(* Bounds of the model.                                                    *)
(***************************************************************************)
\* script runs (user interactions) explored in one behaviour
MaxRuns == 3
\* rows in one raw RCA batch handed to the normalizer
MaxRows == 2
\* positions of one positional RCA row
MaxCells == 5

(***************************************************************************)
(* JSON scalars of an RCA row.  "nan" is pandas' missing value, "absent"   *)
(* marks a key a keyed row does not carry (it never appears in a row).     *)
(***************************************************************************)
Num(n) == [t |-> "num", n |-> n, s |-> ""]
StrV(s) == [t |-> "str", n |-> 0, s |-> s]
Null == [t |-> "null", n |-> 0, s |-> ""]
NaN == [t |-> "nan", n |-> 0, s |-> ""]
Absent == [t |-> "absent", n |-> 0, s |-> ""]

\* the strings float() accepts, with their value in tenths
NumericStrings == ("1.0" :> 10) @@ ("0.8" :> 8)

DEFAULT_COLOR == StrV("#1f77b4")

COLUMN_ORDER == <<"discipline", "rca_pub", "rca_citation", "color">>

OUTPUT_COLUMNS == <<"discipline", "rca_citation", "rca_pub", "color">>

Range(f) == {f[x] : x \in DOMAIN f}

\* pd.isna
IsNa(v) == v.t \in {"null", "nan"}

\* pd.to_numeric(..., errors="coerce") on one cell
ToNumeric(v) ==
    CASE v.t = "num" -> v
      [] v.t = "str" /\ v.s \in DOMAIN NumericStrings -> Num(NumericStrings[v.s])
      [] OTHER -> NaN

(***************************************************************************)
(* A raw RCA row is a keyed record (rec: a function from the keys it       *)
(* carries to their values) or a positional tuple (cells).  A batch never  *)
(* mixes the two shapes.                                                   *)
(***************************************************************************)
KeyedRow(f) == [keyed |-> TRUE, rec |-> f, cells |-> <<>>]
PosRow(c) == [keyed |-> FALSE, rec |-> <<>>, cells |-> c]

(***************************************************************************)
(* A DataFrame: its columns, and its rows in order, each with the index    *)
(* label pandas gave it (its position in the input) and one cell per       *)
(* column.  ok = FALSE stands for the exception the call raised.           *)
(***************************************************************************)
Frame(cols, rows) == [ok |-> TRUE, error |-> "", columns |-> cols, rows |-> rows]
Raised(e) == [ok |-> FALSE, error |-> e, columns |-> {}, rows |-> <<>>]

\* pd.DataFrame(list of dicts): the union of the keys, missing cells are NaN
FrameFromRecords(rca_rows) ==
    LET cols == UNION {DOMAIN rca_rows[i].rec : i \in DOMAIN rca_rows}
    IN  Frame(cols,
              [i \in DOMAIN rca_rows |->
                  [idx |-> i,
                   cells |-> [c \in cols |->
                                 IF c \in DOMAIN rca_rows[i].rec
                                 THEN rca_rows[i].rec[c] ELSE NaN]]])

\* the widest row of a list of lists
RECURSIVE MaxLen(_, _)
MaxLen(rca_rows, i) ==
    IF i = 0 THEN 0
    ELSE LET m == MaxLen(rca_rows, i - 1)
             l == Len(rca_rows[i].cells)
         IN  IF l > m THEN l ELSE m

\* COLUMN_ORDER[: n]
ColumnsTruncated(n) == SubSeq(COLUMN_ORDER, 1, IF n < Len(COLUMN_ORDER) THEN n ELSE Len(COLUMN_ORDER))

\* pd.DataFrame(list of lists, columns=names): short rows are padded with None,
\* and a width other than the number of names is a ValueError
FrameFromTuples(rca_rows, names) ==
    IF MaxLen(rca_rows, Len(rca_rows)) # Len(names)
    THEN Raised("ValueError")
    ELSE Frame(Range(names),
               [i \in DOMAIN rca_rows |->
                   [idx |-> i,
                    cells |-> [c \in Range(names) |->
                                  LET k == CHOOSE j \in DOMAIN names : names[j] = c
                                  IN  IF k <= Len(rca_rows[i].cells)
                                      THEN rca_rows[i].cells[k] ELSE Null]]])

\* df[target] = df[source] when target is no column and source is one
WithAlias(df, target, source) ==
    IF ~df.ok \/ target \in df.columns \/ source \notin df.columns THEN df
    ELSE Frame(df.columns \cup {target},
               [i \in DOMAIN df.rows |->
                   [idx |-> df.rows[i].idx,
                    cells |-> [c \in df.columns \cup {target} |->
                                  IF c = target THEN df.rows[i].cells[source]
                                  ELSE df.rows[i].cells[c]]]])

\* if "color" not in df: df["color"] = "#1f77b4"
WithDefaultColor(df) ==
    IF ~df.ok \/ "color" \in df.columns THEN df
    ELSE Frame(df.columns \cup {"color"},
               [i \in DOMAIN df.rows |->
                   [idx |-> df.rows[i].idx,
                    cells |-> [c \in df.columns \cup {"color"} |->
                                  IF c = "color" THEN DEFAULT_COLOR
                                  ELSE df.rows[i].cells[c]]]])

\* df[col] = pd.to_numeric(df[col], errors="coerce"); df[col] of no column is a KeyError
Coerce(df, col) ==
    IF ~df.ok THEN df
    ELSE IF col \notin df.columns THEN Raised("KeyError")
    ELSE Frame(df.columns,
               [i \in DOMAIN df.rows |->
                   [idx |-> df.rows[i].idx,
                    cells |-> [c \in df.columns |->
                                  IF c = col THEN ToNumeric(df.rows[i].cells[c])
                                  ELSE df.rows[i].cells[c]]]])

\* df.dropna(subset=[...])
DropNa(df, subset) ==
    IF ~df.ok THEN df
    ELSE Frame(df.columns,
               SelectSeq(df.rows, LAMBDA r : \A c \in subset : ~IsNa(r.cells[c])))

\* df[[names]]; a name that is no column is a KeyError
Project(df, names) ==
    IF ~df.ok THEN df
    ELSE IF ~(Range(names) \subseteq df.columns) THEN Raised("KeyError")
    ELSE Frame(Range(names),
               [i \in DOMAIN df.rows |->
                   [idx |-> df.rows[i].idx,
                    cells |-> [c \in Range(names) |-> df.rows[i].cells[c]]]])

\* the column names given to a positional batch
PositionalColumns(first) == ColumnsTruncated(Len(first.cells))

\* _prepare_rca_dataframe
PrepareRcaDataframe(rca_rows) ==
    IF rca_rows = <<>>
    THEN Frame(Range(OUTPUT_COLUMNS), <<>>)
    ELSE LET first == rca_rows[1]
             df0 == IF first.keyed
                    THEN FrameFromRecords(rca_rows)
                    ELSE FrameFromTuples(rca_rows, PositionalColumns(first))
             df1 == WithAlias(df0, "rca_pub", "rca_paper")
             df2 == WithAlias(df1, "rca_citation", "publication")
             df3 == WithDefaultColor(df2)
             df4 == Coerce(df3, "rca_pub")
             df5 == Coerce(df4, "rca_citation")
             df6 == DropNa(df5, {"rca_pub", "rca_citation"})
         IN  Project(df6, OUTPUT_COLUMNS)

(***************************************************************************)
(* The raw batches the normalizer is checked on.                           *)
(***************************************************************************)
RCA_KEYS == {"discipline", "rca_pub", "rca_paper", "rca_citation", "publication", "color"}

KeyChoices(k) ==
    CASE k = "discipline" -> {Absent, StrV("CS")}
      [] k = "rca_pub" -> {Absent, Num(8), StrV("0.8"), StrV("n/a")}
      [] k = "rca_paper" -> {Absent, Num(7)}
      [] k = "rca_citation" -> {Absent, Num(12), StrV("n/a")}
      [] k = "publication" -> {Absent, Num(11)}
      [] k = "color" -> {Absent, StrV("#ff0000")}

KeyedValues == UNION {KeyChoices(k) : k \in RCA_KEYS}

KeyedRows ==
    {KeyedRow([k \in {x \in RCA_KEYS : f[x] # Absent} |-> f[k]]) :
        f \in {g \in [RCA_KEYS -> KeyedValues] : \A k \in RCA_KEYS : g[k] \in KeyChoices(k)}}

CellChoices(i) ==
    CASE i = 1 -> {StrV("Physics")}
      [] i = 2 -> {Num(9), StrV("n/a")}
      [] i = 3 -> {Num(11), Null}
      [] i = 4 -> {StrV("#ff0000")}
      [] OTHER -> {StrV("extra")}

CellValues == UNION {CellChoices(i) : i \in 1..MaxCells}

PositionalRows ==
    UNION {{PosRow(c) : c \in {d \in [1..n -> CellValues] : \A i \in 1..n : d[i] \in CellChoices(i)}} :
              n \in 0..MaxCells}

BatchesOf(rows) == UNION {[1..n -> rows] : n \in 0..MaxRows}

RcaBatches == BatchesOf(KeyedRows) \cup BatchesOf(PositionalRows)

(***************************************************************************)
(* Text helpers.                                                           *)
(***************************************************************************)
WHITESPACE == {" "}

RECURSIVE LStrip(_)
LStrip(s) == IF s # <<>> /\ Head(s) \in WHITESPACE THEN LStrip(Tail(s)) ELSE s

RECURSIVE RStrip(_)
RStrip(s) == IF s # <<>> /\ s[Len(s)] \in WHITESPACE THEN RStrip(SubSeq(s, 1, Len(s) - 1)) ELSE s

NoStrip(s) == s

\* str.strip()
Strip(s) == RStrip(LStrip(s))

\* the position of the last "/" among the first i characters, 0 when there is none
RECURSIVE LastSlash(_, _)
LastSlash(s, i) == IF i = 0 THEN 0 ELSE IF s[i] = "/" THEN i ELSE LastSlash(s, i - 1)

\* _extract_id: full_id.rsplit("/", 1)[-1]
ExtractId(full_id) == SubSeq(full_id, LastSlash(full_id, Len(full_id)) + 1, Len(full_id))

(***************************************************************************)
(* The search endpoint's records.  The id of a record is a JSON string or  *)
(* null.                                                                   *)
(***************************************************************************)
IdStr(chars) == [t |-> "str", chars |-> chars]
IdNull == [t |-> "null", chars |-> <<>>]

Candidates ==
    { [display_name |-> <<"U">>, country_code |-> <<"J">>, works_count |-> 5,
       cited_by_count |-> 9, id |-> IdStr(<<"x", "/", "A">>)],
      [display_name |-> <<"U">>, country_code |-> <<"J">>, works_count |-> 3,
       cited_by_count |-> 4, id |-> IdStr(<<"y", "/", "B">>)],
      [display_name |-> <<"V">>, country_code |-> <<"K">>, works_count |-> 7,
       cited_by_count |-> 2, id |-> IdStr(<<"C">>)],
      [display_name |-> <<"W">>, country_code |-> <<"K">>, works_count |-> 1,
       cited_by_count |-> 1, id |-> IdNull] }

Cand(label, id) == CHOOSE c \in Candidates : c.display_name = label /\ c.id = id

CandA == Cand(<<"U">>, IdStr(<<"x", "/", "A">>))
CandB == Cand(<<"U">>, IdStr(<<"y", "/", "B">>))
CandC == Cand(<<"V">>, IdStr(<<"C">>))
CandD == Cand(<<"W">>, IdNull)

\* the result lists of the responses: none, one, two of one label, two of two
\* labels, one whose id is null
ResultLists == { <<>>, <<CandC>>, <<CandA, CandB>>, <<CandA, CandC>>, <<CandD>> }

\* a parsed response body: a JSON object (with a "results" member that is a
\* list, null or missing) or a JSON array
ObjectBody(items) == [shape |-> "object", results |-> "list", items |-> items]
NoBody == [shape |-> "none", results |-> "absent", items |-> <<>>]

Bodies ==
    {ObjectBody(l) : l \in ResultLists}
    \cup {[shape |-> "object", results |-> "absent", items |-> <<>>],
          [shape |-> "object", results |-> "null", items |-> <<>>],
          [shape |-> "array", results |-> "absent", items |-> <<>>]}

\* what requests.get / raise_for_status / response.json() can end in
FAILURES == {"connection_error", "timeout", "http_error", "bad_json"}

InstOutcomes ==
    {[kind |-> k, body |-> NoBody] : k \in FAILURES}
    \cup {[kind |-> "ok", body |-> b] : b \in Bodies}

NoInstOutcome == [kind |-> "none", body |-> NoBody]

\* the RCA bodies the script is run on: keyed and positional rows, rows that
\* fail coercion, rows without the numeric columns
RcaPayloads ==
    { <<KeyedRow([discipline |-> StrV("CS"), rca_citation |-> Num(12), rca_pub |-> Num(8)])>>,
      <<KeyedRow([discipline |-> StrV("X"), rca_citation |-> StrV("n/a"), rca_pub |-> Num(10)])>>,
      <<KeyedRow([discipline |-> StrV("X")])>>,
      <<PosRow(<<StrV("Physics"), Num(9)>>)>> }

RcaOutcomes ==
    {[kind |-> k, rows |-> <<>>] : k \in FAILURES}
    \cup {[kind |-> "ok", rows |-> b] : b \in RcaPayloads}

NoRcaOutcome == [kind |-> "none", rows |-> <<>>]

\* the contents the bundled sample.json and sample_rca.json may have
SampleResultsChoices == { ObjectBody(<<CandC, CandA>>) }

SampleRcaChoices ==
    { <<KeyedRow([discipline |-> StrV("Math"), rca_citation |-> Num(15), rca_pub |-> Num(13),
                  color |-> StrV("#00ff00")]),
        KeyedRow([discipline |-> StrV("Bio"), rca_citation |-> Num(7), rca_pub |-> Num(6),
                  color |-> StrV("#0000ff")])>> }

\* the queries the user submits
Queries == { <<>>, <<" ">>, <<"a">>, <<" ", "a", " ">>, <<"b">> }

InstKeys == {Strip(q) : q \in Queries} \ {<<>>}

RcaKeys == {ExtractId(c.id.chars) : c \in Candidates}

(***************************************************************************)
(* The two API clients.                                                    *)
(***************************************************************************)
CatchesOnlyTransport(exc) == exc \in {"connection_error", "timeout"}

\* except Exception: every failure of the try block is one
Catches(exc) == exc \in FAILURES

\* the body of fetch_institutions and of fetch_rca: live is the parsed body of a
\* successful call, sample what _safe_read_json gives
Fetch(kind, live, sample, none) ==
    IF kind = "ok" THEN [raised |-> FALSE, src |-> "live", value |-> live]
    ELSE IF Catches(kind) THEN [raised |-> FALSE, src |-> "sample", value |-> sample]
    ELSE [raised |-> TRUE, src |-> "none", value |-> none]

\* st.cache_data keeps one entry per argument value for the life of the
\* process (no ttl, no max_entries), shared by all sessions: the entry of a key
Lookup(cache, key) == cache[key]

StoreLiveOnly(cache, key, res) ==
    IF res.raised \/ res.src # "live" THEN cache
    ELSE [cache EXCEPT ![key] = [hit |-> TRUE, value |-> res.value]]

\* st.cache_data: a call that returns is stored under its argument
Store(cache, key, res) ==
    IF res.raised THEN cache
    ELSE [cache EXCEPT ![key] = [hit |-> TRUE, value |-> res.value]]

\* a call of a cached client: [called, net, raised, src, value, cache]
CachedCall(cache, key, kind, live, sample, none) ==
    LET e == Lookup(cache, key)
        res == Fetch(kind, live, sample, none)
    IN  IF e.hit
        THEN [called |-> TRUE, net |-> FALSE, raised |-> FALSE, src |-> "cache",
              value |-> e.value, cache |-> cache]
        ELSE [called |-> TRUE, net |-> TRUE, raised |-> res.raised, src |-> res.src,
              value |-> res.value, cache |-> Store(cache, key, res)]

NoCall(cache, none) ==
    [called |-> FALSE, net |-> FALSE, raised |-> FALSE, src |-> "none", value |-> none,
     cache |-> cache]

(***************************************************************************)
(* The presenter.                                                          *)
(***************************************************************************)
NoItem == [Name |-> <<>>, Country |-> <<>>, Works |-> 0, CitedBy |-> 0, ID |-> <<>>]

\* one entry of summary_data
Summarise(item) ==
    [Name |-> item.display_name, Country |-> item.country_code,
     Works |-> item.works_count, CitedBy |-> item.cited_by_count,
     ID |-> ExtractId(item.id.chars)]

\* f"{entry['名前']} ({entry['国']})"
Label(entry) == entry.Name \o <<" ", "(">> \o entry.Country \o <<")">>

\* list(label_to_item.keys()): the labels in the order of their first entry
RECURSIVE LabelKeys(_, _)
LabelKeys(summary, n) ==
    IF n = 0 THEN <<>>
    ELSE LET prev == LabelKeys(summary, n - 1)
         IN  IF Label(summary[n]) \in Range(prev) THEN prev
             ELSE Append(prev, Label(summary[n]))

\* label_to_item[label]: a later entry of the same label replaces the earlier
LabelToItem(summary, label) ==
    LET last == CHOOSE i \in DOMAIN summary :
                    /\ Label(summary[i]) = label
                    /\ \A j \in DOMAIN summary : Label(summary[j]) = label => j <= i
    IN  summary[last]

FalsyOnlyNone(results) == results.kind = "null"

\* `not results`
Falsy(results) == results.kind = "null" \/ results.items = <<>>

\* render_results up to the selectbox: what it shows, the options it offers
\* and the item behind each option
RenderResults(results) ==
    IF Falsy(results)
    THEN [raised |-> FALSE, ui |-> {"info_no_results"}, options |-> <<>>, items |-> <<>>]
    ELSE IF \E i \in DOMAIN results.items : results.items[i].id.t = "null"
    THEN [raised |-> TRUE, ui |-> {}, options |-> <<>>, items |-> <<>>]
    ELSE LET summary == [i \in DOMAIN results.items |-> Summarise(results.items[i])]
             options == LabelKeys(summary, Len(summary))
         IN  [raised |-> FALSE, ui |-> {"table", "selectbox"}, options |-> options,
              items |-> [j \in DOMAIN options |-> LabelToItem(summary, options[j])]]

\* render_scatter
RenderScatter(rca_rows) ==
    LET df == PrepareRcaDataframe(rca_rows)
    IN  IF ~df.ok THEN [raised |-> TRUE, ui |-> {}]
        ELSE IF df.rows = <<>> THEN [raised |-> FALSE, ui |-> {"warning_no_rca"}]
        ELSE [raised |-> FALSE, ui |-> {"chart"}]

(***************************************************************************)
(* The script.                                                             *)
(***************************************************************************)
ListValue(items) == [kind |-> "list", items |-> items]
NullValue == [kind |-> "null", items |-> <<>>]

\* response_json.get("results", []): a JSON array has no get
GetResults(body) ==
    IF body.shape # "object" THEN [raised |-> TRUE, value |-> ListValue(<<>>)]
    ELSE IF body.results = "absent" THEN [raised |-> FALSE, value |-> ListValue(<<>>)]
    ELSE IF body.results = "null" THEN [raised |-> FALSE, value |-> NullValue]
    ELSE [raised |-> FALSE, value |-> ListValue(body.items)]

ResultsReadBeforeSubmit(before, after) == before

\* results = st.session_state.get("search_results", []), read after the submit
ResultsForRender(before, after) == after

NoWidget == [options |-> <<>>, index |-> 0]

VARIABLES
    search_results,  \* st.session_state["search_results"]
    inst_cache,      \* the cache of fetch_institutions, by query
    rca_cache,       \* the cache of fetch_rca, by institution id
    widget,          \* the selectbox of the last run: its options and index
    sample_results,  \* the contents of sample.json
    sample_rca,      \* the contents of sample_rca.json
    net_inst,        \* requests issued to the search endpoint, by query
    net_rca,         \* requests issued to the RCA endpoint, by id
    first_inst,      \* what the first call of fetch_institutions returned, by query
    first_rca,       \* what the first call of fetch_rca returned, by id
    run,             \* the last run of the script
    runs,            \* the runs so far
    norm_in,         \* the normalizer's input
    norm_out,        \* the normalizer's output
    norm_pc

vars == <<search_results, inst_cache, rca_cache, widget, sample_results, sample_rca,
          net_inst, net_rca, first_inst, first_rca, run, runs, norm_in, norm_out, norm_pc>>

pvars == <<search_results, inst_cache, rca_cache, widget, sample_results, sample_rca,
           net_inst, net_rca, first_inst, first_rca, run, runs>>

nvars == <<norm_in, norm_out, norm_pc>>

NoFrame == Raised("not run")

\* One run of the script from top to bottom (Streamlit reruns it on every
\* interaction): submitted and query are the form's values, pick the index the
\* user set the selectbox to (0: left alone); io and ro are the outcomes of the
\* network calls the run issues.  The selectbox keeps its index from the last
\* run while it is given the same options, starts at the first option when the
\* options differ, and is forgotten by a run that does not reach it.  An
\* exception ends the run where it is raised (crashed_at); what was shown up to
\* there stays shown.
Script(kind, submitted, query, pick) ==
    LET cleaned == Strip(query)
        fetch == submitted /\ cleaned # <<>>
    IN
    \E io \in (IF fetch /\ ~Lookup(inst_cache, cleaned).hit
               THEN InstOutcomes ELSE {NoInstOutcome}) :
    \E ic \in {IF fetch
               THEN CachedCall(inst_cache, cleaned, io.kind, io.body, sample_results, NoBody)
               ELSE NoCall(inst_cache, NoBody)} :
    \E gr \in {IF fetch /\ ~ic.raised THEN GetResults(ic.value)
               ELSE [raised |-> FALSE, value |-> search_results]} :
    \E crash1 \in {IF ic.raised THEN "fetch_institutions"
                   ELSE IF gr.raised THEN "get_results" ELSE "none"} :
    \E stored \in {IF crash1 = "none" THEN gr.value ELSE search_results} :
    \E results \in {ResultsForRender(search_results, stored)} :
    \E rr \in {IF crash1 = "none" THEN RenderResults(results)
               ELSE [raised |-> FALSE, ui |-> {}, options |-> <<>>, items |-> <<>>]} :
    \E crash2 \in {IF crash1 # "none" THEN crash1
                   ELSE IF rr.raised THEN "extract_id" ELSE "none"} :
    \E index \in {IF rr.options = <<>> THEN 0
                  ELSE IF rr.options # widget.options THEN 1
                  ELSE IF pick # 0 THEN pick ELSE widget.index} :
    \E selected \in {IF index = 0 THEN [some |-> FALSE, item |-> NoItem]
                     ELSE [some |-> TRUE, item |-> rr.items[index]]} :
    \E ro \in (IF crash2 = "none" /\ selected.some /\ ~Lookup(rca_cache, selected.item.ID).hit
               THEN RcaOutcomes ELSE {NoRcaOutcome}) :
    \E rc \in {IF crash2 = "none" /\ selected.some
               THEN CachedCall(rca_cache, selected.item.ID, ro.kind, ro.rows, sample_rca, <<>>)
               ELSE NoCall(rca_cache, <<>>)} :
    \E rs \in {IF rc.called /\ ~rc.raised THEN RenderScatter(rc.value)
               ELSE [raised |-> FALSE, ui |-> {}]} :
    LET institution_id == selected.item.ID
        crash3 == IF crash2 # "none" THEN crash2
                  ELSE IF rc.raised THEN "fetch_rca"
                  ELSE IF rs.raised THEN "prepare_rca" ELSE "none"
        ui1 == IF submitted /\ ~fetch THEN {"warning_empty_query"} ELSE {}
        ui3 == IF rc.called THEN {"detail_header"} \cup rs.ui
               ELSE IF crash2 = "none" /\ Falsy(results) THEN {"info_start"} ELSE {}
    IN  /\ search_results' = stored
        /\ inst_cache' = ic.cache
        /\ rca_cache' = rc.cache
        /\ widget' = IF index = 0 THEN NoWidget ELSE [options |-> rr.options, index |-> index]
        /\ net_inst' = IF ic.net THEN [net_inst EXCEPT ![cleaned] = @ + 1] ELSE net_inst
        /\ net_rca' = IF rc.net THEN [net_rca EXCEPT ![institution_id] = @ + 1] ELSE net_rca
        /\ first_inst' = IF ic.called /\ ~ic.raised /\ ~first_inst[cleaned].hit
                         THEN [first_inst EXCEPT ![cleaned] = [hit |-> TRUE, value |-> ic.value]]
                         ELSE first_inst
        /\ first_rca' = IF rc.called /\ ~rc.raised /\ ~first_rca[institution_id].hit
                        THEN [first_rca EXCEPT ![institution_id] = [hit |-> TRUE, value |-> rc.value]]
                        ELSE first_rca
        /\ run' = [kind |-> kind, query |-> query,
                   replaced_selection |-> widget.index # 0 /\ stored # search_results,
                   inst_key |-> IF ic.called THEN cleaned ELSE <<>>,
                   inst_called |-> ic.called, inst_net |-> ic.net,
                   inst_ok |-> ic.net /\ io.kind = "ok",
                   inst_live |-> IF ic.net THEN io.body ELSE NoBody,
                   inst_ret |-> ic.value,
                   rca_called |-> rc.called, rca_net |-> rc.net,
                   rca_key |-> IF rc.called THEN institution_id ELSE <<>>,
                   rca_ok |-> rc.net /\ ro.kind = "ok",
                   rca_live |-> IF rc.net THEN ro.rows ELSE <<>>,
                   rca_ret |-> rc.value,
                   crashed_at |-> crash3,
                   ui |-> ui1 \cup rr.ui \cup ui3,
                   options |-> rr.options,
                   selected |-> selected]
        /\ runs' = runs + 1
        /\ UNCHANGED <<sample_results, sample_rca>>

FirstRun ==
    [kind |-> "load", query |-> <<>>, replaced_selection |-> FALSE, inst_key |-> <<>>,
     inst_called |-> FALSE, inst_net |-> FALSE, inst_ok |-> FALSE,
     inst_live |-> NoBody, inst_ret |-> NoBody,
     rca_called |-> FALSE, rca_net |-> FALSE, rca_key |-> <<>>,
     rca_ok |-> FALSE, rca_live |-> <<>>, rca_ret |-> <<>>,
     crashed_at |-> "none", ui |-> {"info_no_results", "info_start"},
     options |-> <<>>, selected |-> [some |-> FALSE, item |-> NoItem]]

\* the process has started and a first session has loaded the page
Init ==
    /\ search_results = ListValue(<<>>)
    /\ inst_cache = [k \in InstKeys |-> [hit |-> FALSE, value |-> NoBody]]
    /\ rca_cache = [k \in RcaKeys |-> [hit |-> FALSE, value |-> <<>>]]
    /\ widget = NoWidget
    /\ sample_results \in SampleResultsChoices
    /\ sample_rca \in SampleRcaChoices
    /\ net_inst = [k \in InstKeys |-> 0]
    /\ net_rca = [k \in RcaKeys |-> 0]
    /\ first_inst = [k \in InstKeys |-> [hit |-> FALSE, value |-> NoBody]]
    /\ first_rca = [k \in RcaKeys |-> [hit |-> FALSE, value |-> <<>>]]
    /\ run = FirstRun
    /\ runs = 0
    /\ norm_in = <<>>
    /\ norm_out = NoFrame
    /\ norm_pc = "off"

\* the user presses the form's submit button
Submit ==
    /\ runs < MaxRuns
    /\ \E query \in Queries : Script("submit", TRUE, query, 0)
    /\ UNCHANGED nvars

\* the user sets the selectbox to another option
ChangeSelection ==
    /\ runs < MaxRuns
    /\ \E pick \in 1..Len(widget.options) :
           /\ pick # widget.index
           /\ Script("select", FALSE, <<>>, pick)
    /\ UNCHANGED nvars

\* a new browser session loads the page: a fresh session_state, the same process
NewSession ==
    /\ runs < MaxRuns
    /\ search_results' = ListValue(<<>>)
    /\ widget' = NoWidget
    /\ run' = FirstRun
    /\ runs' = runs + 1
    /\ UNCHANGED <<inst_cache, rca_cache, sample_results, sample_rca, net_inst, net_rca,
                   first_inst, first_rca>>
    /\ UNCHANGED nvars

Next == Submit \/ ChangeSelection \/ NewSession

Spec == Init /\ [][Next]_vars

(***************************************************************************)
(* Properties of the script (checked under Spec).                          *)
(***************************************************************************)
NonEmptyResults(body) == body.results = "list" /\ body.items # <<>>

\* C1 as stated: a client call that goes to the network never raises and
\* returns either a non-empty list from the live endpoint or exactly the
\* contents of the bundled sample.
C1_NonEmptyLiveOrSample ==
    /\ run.inst_net =>
          /\ run.crashed_at # "fetch_institutions"
          /\ \/ run.inst_ok /\ run.inst_ret = run.inst_live /\ NonEmptyResults(run.inst_ret)
             \/ run.inst_ret = sample_results
    /\ run.rca_net =>
          /\ run.crashed_at # "fetch_rca"
          /\ \/ run.rca_ok /\ run.rca_ret = run.rca_live /\ run.rca_ret # <<>>
             \/ run.rca_ret = sample_rca

\* C1 amended: a client call that goes to the network never raises; after a
\* successful call it returns exactly the parsed live body, whatever that body
\* holds (its result list may be empty or missing), and after every failure
\* exactly the contents of the bundled sample.
C1_LiveBodyOrSample ==
    /\ run.inst_net =>
          /\ run.crashed_at # "fetch_institutions"
          /\ run.inst_ret = IF run.inst_ok THEN run.inst_live ELSE sample_results
    /\ run.rca_net =>
          /\ run.crashed_at # "fetch_rca"
          /\ run.rca_ret = IF run.rca_ok THEN run.rca_live ELSE sample_rca

\* a run whose search call failed and fell back to the sample, and whose RCA
\* call succeeded
C1_Witness ==
    /\ run.inst_net /\ ~run.inst_ok /\ run.inst_ret = sample_results
    /\ run.rca_net /\ run.rca_ok /\ run.rca_ret = run.rca_live

\* C2: for each key at most one network request is ever issued, by each of
\* the two clients, and every call for a key returns what the first call for
\* that key returned, whether that was a live body or the sample.
C2_OneRequestPerKey ==
    /\ \A k \in DOMAIN net_inst : net_inst[k] = IF first_inst[k].hit THEN 1 ELSE 0
    /\ \A k \in DOMAIN net_rca : net_rca[k] = IF first_rca[k].hit THEN 1 ELSE 0
    /\ run.inst_called /\ run.crashed_at # "fetch_institutions" =>
          /\ first_inst[run.inst_key].hit
          /\ run.inst_ret = first_inst[run.inst_key].value
    /\ run.rca_called /\ run.crashed_at # "fetch_rca" =>
          /\ first_rca[run.rca_key].hit
          /\ run.rca_ret = first_rca[run.rca_key].value

\* a later call for a key whose first call fell back to the sample: no request
C2_Witness ==
    /\ run.inst_called /\ ~run.inst_net
    /\ run.inst_ret = sample_results
    /\ net_inst[run.inst_key] = 1

\* C3: no error is fatal: every run ends in a user-visible state and never in
\* an unhandled exception.
C3_NoUnhandledException == run.crashed_at = "none" /\ run.ui # {}

Blank(query) == \A i \in DOMAIN query : query[i] = " "

\* C7: a submit whose query is empty after trimming calls no client, issues no
\* request, shows the warning and leaves the stored result list as it was.
C7_BlankSubmitChangesNothing ==
    [][(runs' = runs + 1 /\ run'.kind = "submit" /\ Blank(run'.query)) =>
          /\ search_results' = search_results
          /\ ~run'.inst_called
          /\ net_inst' = net_inst
          /\ inst_cache' = inst_cache
          /\ "warning_empty_query" \in run'.ui]_vars

\* a whitespace-only submit in a session that holds candidates
C7_Witness ==
    /\ run.kind = "submit" /\ run.query = <<" ">>
    /\ "warning_empty_query" \in run.ui
    /\ search_results.kind = "list" /\ search_results.items # <<>>

PresenterRan == run.crashed_at \notin {"fetch_institutions", "get_results"}

ListIsEmpty == search_results.kind = "null" \/ search_results.items = <<>>

\* C8: when the presenter is given an empty candidate list it returns no
\* selection; the run issues no RCA fetch and renders no table, selection or
\* chart, only the informational message.
C8_EmptyListStopsDownstream ==
    PresenterRan /\ ListIsEmpty =>
        /\ ~run.selected.some
        /\ ~run.rca_called /\ ~run.rca_net
        /\ run.ui \cap {"table", "selectbox", "detail_header", "chart", "warning_no_rca"} = {}
        /\ "info_no_results" \in run.ui

\* a search that returned zero candidates
C8_Witness ==
    /\ run.kind = "submit" /\ run.inst_net /\ run.inst_ok
    /\ run.inst_ret.results = "list"
    /\ ListIsEmpty /\ PresenterRan
    /\ "info_no_results" \in run.ui

\* key is the part of full_id after its last "/" (all of it when it has none)
IsCanonical(key, full_id) ==
    \E k \in 0..Len(full_id) :
        /\ k = 0 \/ full_id[k] = "/"
        /\ key = SubSeq(full_id, k + 1, Len(full_id))
        /\ \A i \in DOMAIN key : key[i] # "/"

\* C9: a search with a non-empty query stores exactly the results of the body
\* it got, and the identifier a run looks RCA data up by is the canonical
\* identifier of a candidate of the list stored now.
C9_LookupKeyFromStoredList ==
    /\ run.inst_called /\ run.inst_ret.shape = "object" /\ run.crashed_at # "fetch_institutions" =>
          /\ run.inst_ret.results = "list" => search_results = [kind |-> "list", items |-> run.inst_ret.items]
          /\ run.inst_ret.results = "absent" => search_results = [kind |-> "list", items |-> <<>>]
          /\ run.inst_ret.results = "null" => search_results.kind = "null"
    /\ run.rca_called =>
          /\ search_results.kind = "list"
          /\ \E i \in DOMAIN search_results.items :
                /\ search_results.items[i].id.t = "str"
                /\ IsCanonical(run.rca_key, search_results.items[i].id.chars)
          /\ run.selected.some /\ run.selected.item.ID = run.rca_key

\* a search that replaced the list a selection had been made in, followed in
\* the same run by an RCA lookup
C9_Witness ==
    /\ run.kind = "submit" /\ run.replaced_selection
    /\ run.rca_called /\ run.rca_net

\* C10: the presenter offers one entry per candidate, labelled
\* "{displayName} ({countryCode})", and returns the record of the candidate
\* picked, with its canonical identifier.
C10_OneEntryPerCandidate ==
    "selectbox" \in run.ui /\ search_results.kind = "list" =>
        /\ Len(run.options) = Len(search_results.items)
        /\ \A i \in DOMAIN search_results.items :
              LET c == search_results.items[i]
              IN  /\ i \in DOMAIN run.options
                  /\ run.options[i] = c.display_name \o <<" ", "(">> \o c.country_code \o <<")">>
                  /\ widget.index = i =>
                        /\ run.selected.item.Name = c.display_name
                        /\ run.selected.item.Works = c.works_count
                        /\ IsCanonical(run.selected.item.ID, c.id.chars)

(***************************************************************************)
(* The normalizer on its own, on every batch of RcaBatches.                *)
(***************************************************************************)
InitNorm ==
    /\ search_results = ListValue(<<>>)
    /\ inst_cache = [k \in InstKeys |-> [hit |-> FALSE, value |-> NoBody]]
    /\ rca_cache = [k \in RcaKeys |-> [hit |-> FALSE, value |-> <<>>]]
    /\ widget = NoWidget
    /\ sample_results \in SampleResultsChoices
    /\ sample_rca \in SampleRcaChoices
    /\ net_inst = [k \in InstKeys |-> 0]
    /\ net_rca = [k \in RcaKeys |-> 0]
    /\ first_inst = [k \in InstKeys |-> [hit |-> FALSE, value |-> NoBody]]
    /\ first_rca = [k \in RcaKeys |-> [hit |-> FALSE, value |-> <<>>]]
    /\ run = FirstRun
    /\ runs = 0
    /\ norm_in \in RcaBatches
    /\ norm_out = NoFrame
    /\ norm_pc = "input"

\* df = _prepare_rca_dataframe(rca_rows)
Normalize ==
    /\ norm_pc = "input"
    /\ norm_out' = PrepareRcaDataframe(norm_in)
    /\ norm_pc' = "normalized"
    /\ UNCHANGED norm_in
    /\ UNCHANGED pvars

NextNorm == Normalize

SpecNorm == InitNorm /\ [][NextNorm]_vars

(***************************************************************************)
(* Properties of the normalizer (checked under SpecNorm).                  *)
(***************************************************************************)
Normalized == norm_pc = "normalized"

Coercible(v) == v.t = "num" \/ (v.t = "str" /\ v.s \in DOMAIN NumericStrings)

NumberOf(v) == IF v.t = "num" THEN v.n ELSE NumericStrings[v.s]

BatchHasKey(k) == \E i \in DOMAIN norm_in : k \in DOMAIN norm_in[i].rec

\* the value raw row i carries under a canonical field: by key (or by the
\* alternate key when no row of the batch carries the canonical one) in a
\* keyed batch, by position in a positional one; Absent when it carries none
RawField(i, key, alt, pos) ==
    LET r == norm_in[i]
    IN  IF r.keyed
        THEN IF key \in DOMAIN r.rec THEN r.rec[key]
             ELSE IF ~BatchHasKey(key) /\ alt \in DOMAIN r.rec THEN r.rec[alt]
             ELSE Absent
        ELSE IF pos <= Len(r.cells) THEN r.cells[pos] ELSE Absent

RawPub(i) == RawField(i, "rca_pub", "rca_paper", 2)
RawCitation(i) == RawField(i, "rca_citation", "publication", 3)

\* the rows of the input whose two numeric fields both coerce
Parsable == {i \in DOMAIN norm_in : Coercible(RawPub(i)) /\ Coercible(RawCitation(i))}

\* C4: for any list of raw rows the normalizer outputs exactly the rows whose
\* rcaPub and rcaCitation both coerce to numbers, in input order and with
\* those values; every other row is dropped.
C4_KeepsExactlyParsableRows ==
    Normalized =>
        /\ norm_out.ok
        /\ {norm_out.rows[j].idx : j \in DOMAIN norm_out.rows} = Parsable
        /\ \A j, k \in DOMAIN norm_out.rows : j < k => norm_out.rows[j].idx < norm_out.rows[k].idx
        /\ \A j \in DOMAIN norm_out.rows :
              LET r == norm_out.rows[j]
              IN  /\ r.cells["rca_pub"] = Num(NumberOf(RawPub(r.idx)))
                  /\ r.cells["rca_citation"] = Num(NumberOf(RawCitation(r.idx)))

HasColor(i) ==
    IF norm_in[i].keyed THEN "color" \in DOMAIN norm_in[i].rec
    ELSE Len(norm_in[i].cells) >= 4

\* C5: every output row whose input row carries no color has the default
\* color, also in a batch where other rows carry one.
C5_DefaultColorPerRow ==
    Normalized /\ norm_out.ok =>
        \A j \in DOMAIN norm_out.rows :
            ~HasColor(norm_out.rows[j].idx) => norm_out.rows[j].cells["color"] = DEFAULT_COLOR

\* C6: a batch whose first row is a tuple (of at least the three positions
\* discipline, rcaPub, rcaCitation) is read by position: the normalizer gives
\* a table in which position 1 of a tuple is its rcaPub, position 2 its
\* rcaCitation and position 3, if the first tuple has it, its color.
C6_PositionalOrder ==
    Normalized /\ norm_in # <<>> /\ ~norm_in[1].keyed /\ Len(norm_in[1].cells) >= 3 =>
        /\ norm_out.ok
        /\ \A j \in DOMAIN norm_out.rows :
              LET r == norm_out.rows[j]
                  t == norm_in[r.idx].cells
              IN  /\ r.cells["discipline"] = t[1]
                  /\ r.cells["rca_pub"] = ToNumeric(t[2])
                  /\ r.cells["rca_citation"] = ToNumeric(t[3])
                  /\ Len(norm_in[1].cells) >= 4 /\ Len(t) >= 4 => r.cells["color"] = t[4]

====
